---- MODULE Spec2Model ----
(***************************************************************************)
(* S3renity (src/index.js): batch operations (list, forEach, map, reduce,  *)
(* filter) over the objects of an S3 prefix, as a state machine.           *)
(*                                                                         *)
(* Strings (keys, buckets, bodies, location strings) are sequences of      *)
(* one-character strings, so that split, join, substr, indexOf and         *)
(* lastIndexOf are computed as the code computes them.  The S3 service and *)
(* the user function are the environment: every S3 call is issued in one   *)
(* step and answered (success or error) in a later one, an asynchronous    *)
(* user function is called in one step and settles in a later one, and a   *)
(* synchronous user function returns or throws inside the step that calls  *)
(* it.                                                                     *)
(***************************************************************************)
EXTENDS Integers, Sequences, FiniteSets, TLC

(***************************************************************************)
(* Bounds of the model.                                                    *)
(***************************************************************************)
\* the number of objects under the prefix is 0..NumKeys
NumKeys == 2
\* a listObjects page holds 1..MaxPage keys
MaxPage == 2

(***************************************************************************)
(* Strings.                                                                *)
(***************************************************************************)
\* character codes, for the store's lexicographic (UTF-8 binary) key order
Code(c) ==
  CASE c = "\n" -> 10 [] c = "!" -> 33 [] c = "," -> 44 [] c = "/" -> 47
    [] c = "3" -> 51 [] c = ":" -> 58 [] c = "a" -> 97 [] c = "b" -> 98
    [] c = "d" -> 100 [] c = "o" -> 111 [] c = "s" -> 115 [] c = "t" -> 116

RECURSIVE StrLess(_, _)
StrLess(s, t) ==
  IF t = <<>> THEN FALSE
  ELSE IF s = <<>> THEN TRUE
  ELSE IF Code(Head(s)) # Code(Head(t)) THEN Code(Head(s)) < Code(Head(t))
  ELSE StrLess(Tail(s), Tail(t))

\* String.prototype.indexOf / lastIndexOf for a one-character needle (0-based, -1 if absent)
IndexOf(s, c) ==
  IF \E i \in 1..Len(s) : s[i] = c
  THEN (CHOOSE i \in 1..Len(s) : s[i] = c /\ \A j \in 1..(i - 1) : s[j] # c) - 1
  ELSE -1

LastIndexOf(s, c) ==
  IF \E i \in 1..Len(s) : s[i] = c
  THEN (CHOOSE i \in 1..Len(s) : s[i] = c /\ \A j \in (i + 1)..Len(s) : s[j] # c) - 1
  ELSE -1

\* String.prototype.substr(start, length) for start >= 0
Substr(s, start, length) ==
  LET last == IF start + length > Len(s) THEN Len(s) ELSE start + length
  IN  IF start >= Len(s) \/ length <= 0 THEN <<>> ELSE SubSeq(s, start + 1, last)

\* s.indexOf(p) == 0
StartsWith(s, p) == Len(s) >= Len(p) /\ SubSeq(s, 1, Len(p)) = p

\* String.prototype.split for a one-character delimiter d (a string of length 1)
RECURSIVE Split(_, _)
Split(s, d) ==
  LET i == IndexOf(s, d[1])
  IN  IF i = -1 THEN <<s>>
      ELSE <<SubSeq(s, 1, i)>> \o Split(SubSeq(s, i + 2, Len(s)), d)

\* the undefined delimiter: split() never stores the empty string (line 131)
Undefined == <<>>

\* Array.prototype.join: an undefined separator is ","
RECURSIVE Join(_, _)
Join(list, d) ==
  LET sep == IF d = Undefined THEN <<",">> ELSE d
  IN  IF list = <<>> THEN <<>>
      ELSE IF Len(list) = 1 THEN list[1]
      ELSE list[1] \o sep \o Join(Tail(list), d)

TYPE_S3 == "s3"
TYPE_FILE == "file"
S3Scheme == <<"s", "3", ":", "/", "/">>

resolveKey(str) ==
  IF StartsWith(str, S3Scheme)
  THEN LET key == Substr(str, 5, Len(str) - 1)
       IN  [bucket |-> Split(key, <<"/">>)[1],
            prefix |-> Substr(key, IndexOf(key, "/") + 1, Len(key)),
            file   |-> <<>>,
            type   |-> TYPE_S3]
  ELSE [bucket |-> <<>>, prefix |-> <<>>, file |-> str, type |-> TYPE_FILE]

getFileName(key) == Substr(key, LastIndexOf(key, "/") + 1, Len(key))


(***************************************************************************)
(* JavaScript values that reach a callback or a promise.                   *)
(***************************************************************************)
\* what a user function may throw (or reject with): one truthy, one falsy value
ThrowVals == {"Error", "undefined"}
\* what an S3 call fails with: the SDK's error object
StoreError == "StoreError"
\* `if (err)`
Truthy(v) == v \notin {"null", "undefined", "false", "zero"}

NoVal == [kind |-> "none", err |-> "null", acc |-> <<>>]
UndefinedVal == [kind |-> "undefined", err |-> "null", acc |-> <<>>]
NullVal == [kind |-> "null", err |-> "null", acc |-> <<>>]
ErrVal(e) == [kind |-> "error", err |-> e, acc |-> <<>>]
AccVal(a) == [kind |-> "value", err |-> "null", acc |-> a]

(***************************************************************************)
(* The objects of the store and the configurations.                        *)
(***************************************************************************)
Key_dir == <<"d", "/">>
Key_da == <<"d", "/", "a">>
Key_dsa == <<"d", "/", "s", "/", "a">>
Key_db == <<"d", "/", "b">>
Key_dsb == <<"d", "/", "s", "/", "b">>
\* a key of the bucket outside the prefix "d/"
Key_out == <<"d", "a">>
\* the keys under the prefix, in the order they are added to the bucket
KeyPool == <<Key_da, Key_dsa, Key_db, Key_dsb>>

\* object bodies: no record, one record, two records
Bodies == {<<>>, <<"a">>, <<"a", "\n", "b">>}

\* location strings given to context() and target()
ContextStr == S3Scheme \o <<"b", "/", "d">>
TargetStrs == {S3Scheme \o <<"t", "/", "o", "/">>, S3Scheme \o <<"b", "/", "d", "/">>}

\* the starting marker: the constructor's '' or a key given to marker()
Markers == {<<>>, Key_da}

Loc(b, k) == <<b, k>>

\* the configuration after the constructor (38-63), context(ContextStr) (73-81),
\* optionally marker(m) (91-94), split("\n") (130-133) and target(t) (145-154)
Configs ==
  LET ctx == resolveKey(ContextStr)
      base == [bucket |-> ctx.bucket, prefix |-> ctx.prefix, marker |-> <<>>,
               hasTarget |-> FALSE, targetBucket |-> <<>>, targetPrefix |-> <<>>]
      targeted == {[base EXCEPT !.hasTarget = TRUE,
                                !.targetBucket = resolveKey(t).bucket,
                                !.targetPrefix = resolveKey(t).prefix] : t \in TargetStrs}
  IN  {[bucket |-> c.bucket, prefix |-> c.prefix, marker |-> m,
        hasTarget |-> c.hasTarget, targetBucket |-> c.targetBucket,
        targetPrefix |-> c.targetPrefix, delimiter |-> d] :
          c \in {base} \cup targeted, d \in {Undefined, <<"\n">>}, m \in Markers}

\* the initial contents of the store: the first n keys of the pool, any bodies,
\* with or without the directory marker object, plus one key outside the prefix
Stores ==
  LET b == resolveKey(ContextStr).bucket
  IN  UNION {
        {[l \in {Loc(b, KeyPool[i]) : i \in 1..n} \cup {Loc(b, Key_out)} \cup dir |->
            IF l = Loc(b, Key_out) THEN <<"a">>
            ELSE IF l = Loc(b, Key_dir) THEN <<>>
            ELSE f[l[2]]] :
          f \in [{KeyPool[i] : i \in 1..n} -> Bodies],
          dir \in {{}, {Loc(b, Key_dir)}}} : n \in 0..NumKeys}

VARIABLES
  this,           \* the instance's configuration (bucket, prefix, delimiter, target...)
  s3,             \* the store: (bucket, key) -> body
  op,             \* the batch operation called: "none" before the call
  isAsync,        \* the operation's isAsync argument
  pc,             \* where the operation is suspended
  in,             \* the helper closure that issued the pending get: "object" or "split"
  allKeys,        \* list._keys: the keys accumulated so far
  marker,         \* list._keys: the marker of the next page
  keys,           \* the keys still to process (the array the helpers shift)
  key,            \* the key being processed
  entries,        \* the records of the object being processed
  pend,           \* async split mode: per record, "pending" or the settled value
  value,          \* reduce: the accumulator
  removeObjects,  \* filter: keys whose predicate was false
  keepObjects,    \* filter: keys whose predicate was true
  copies,         \* filter._finish: the copies in flight (indices into keepObjects)
  settled,        \* the returned promise: "pending", "resolved" or "rejected"
  result,         \* the value it settled with
  calls,          \* history: the S3 calls issued, in order
  fnlog,          \* history: the user function's calls, with their outcomes
  workingSet,     \* history: the keys list() resolved with
  s3Init,         \* history: the store when the operation was called
  firstErr,       \* history: the first user-function or store failure
  func,           \* filter: the predicate given, "user" or clean()'s "nonEmpty"
  joinDelimiter,  \* join: its delimiter argument, as passed
  getPromises,    \* join: the promises of the gets, one per key
  str,            \* resolveKey: the string it is applied to
  resolved        \* resolveKey: what it returned

\* the variables of join and resolveKey, which the batch operations leave alone
outside == <<joinDelimiter, getPromises, str, resolved>>

vars == <<func, joinDelimiter, getPromises, str, resolved, this, s3, op, isAsync, pc, in, allKeys, marker, keys, key, entries, pend,
          value, removeObjects, keepObjects, copies, settled, result, calls, fnlog,
          workingSet, s3Init, firstErr>>

NoErr == [kind |-> "none", val |-> "null", key |-> <<>>]

\* resolveKey has not been applied
NotResolved == [bucket |-> <<>>, prefix |-> <<>>, file |-> <<>>, type |-> "none"]

Init ==
  /\ this \in Configs
  /\ s3 \in Stores
  /\ op = "none"
  /\ isAsync = FALSE
  /\ pc = "idle"
  /\ in = "none"
  /\ allKeys = <<>>
  /\ marker = <<>>
  /\ keys = <<>>
  /\ key = <<>>
  /\ entries = <<>>
  /\ pend = <<>>
  /\ value = <<>>
  /\ removeObjects = <<>>
  /\ keepObjects = <<>>
  /\ copies = {}
  /\ settled = "pending"
  /\ result = NoVal
  /\ calls = <<>>
  /\ fnlog = <<>>
  /\ workingSet = <<>>
  /\ s3Init = s3
  /\ firstErr = NoErr
  /\ func = "user"
  /\ joinDelimiter = Undefined
  /\ getPromises = <<>>
  /\ str = <<>>
  /\ resolved = NotResolved


(***************************************************************************)
(* The S3 service.                                                         *)
(***************************************************************************)
\* the keys of bucket b that begin with pfx and sort after m, in key order
RECURSIVE SortKeys(_)
SortKeys(S) ==
  IF S = {} THEN <<>>
  ELSE LET least == CHOOSE k \in S : \A o \in S \ {k} : StrLess(k, o)
       IN  <<least>> \o SortKeys(S \ {least})

KeysAfter(b, pfx, m) ==
  SortKeys({l[2] : l \in {x \in DOMAIN s3 : x[1] = b /\ StartsWith(x[2], pfx)
                                            /\ StrLess(m, x[2])}})

FirstN(list, n) == IF Len(list) <= n THEN list ELSE SubSeq(list, 1, n)

\* the store after putObject / copyObject / deleteObjects succeeded
StorePut(st, l, body) == [x \in DOMAIN st \cup {l} |-> IF x = l THEN body ELSE st[x]]
StoreDelete(st, ls) == [x \in DOMAIN st \ ls |-> st[x]]

\* entries of the call history
Call(o, b, k, body, for) == [op |-> o, bucket |-> b, key |-> k, body |-> body, for |-> for, dels |-> <<>>]
DeleteCall(b, ks) == [op |-> "delete", bucket |-> b, key |-> <<>>, body |-> <<>>, for |-> <<>>, dels |-> ks]

\* get(arg1, arg2): arg1 is a bucket name here, so resolveKey(arg1) is a file and
\* the call is getObject(arg1, arg2)
get(arg1, arg2) ==
  LET target == resolveKey(arg1)
  IN  IF target.type = TYPE_S3
      THEN Call("get", target.bucket, target.prefix, <<>>, arg2)
      ELSE Call("get", arg1, arg2, <<>>, arg2)

\* the body a successful get resolves with (no transformer; utf8 strings decode to themselves)
Body(c) == s3[Loc(c.bucket, c.key)]
PendingGet == calls[Len(calls)]
GetCanSucceed == Loc(PendingGet.bucket, PendingGet.key) \in DOMAIN s3

\* splitObject's success value for a fetched body
splitObject(body, delimiter) ==
  LET d == IF delimiter = Undefined THEN <<"\n">> ELSE delimiter
  IN  IF body = <<>> THEN <<>> ELSE Split(body, d)

(***************************************************************************)
(* Settling the returned promise.  A promise settles once.                 *)
(***************************************************************************)
success(v) ==
  /\ pc' = "done"
  /\ settled' = IF settled = "pending" THEN "resolved" ELSE settled
  /\ result' = IF settled = "pending" THEN v ELSE result

fail(e) ==
  /\ pc' = "done"
  /\ settled' = IF settled = "pending" THEN "rejected" ELSE settled
  /\ result' = IF settled = "pending" THEN ErrVal(e) ELSE result

\* the first failure: of a user function ("fn"), of an S3 call ("list", "get", "put",
\* "copy", "delete") or of the library's own code ("internal")
Failure(kind, v, k) ==
  firstErr' = IF firstErr.kind = "none" THEN [kind |-> kind, val |-> v, key |-> k] ELSE firstErr

(***************************************************************************)
(* list()                                                                  *)
(***************************************************************************)
\* list(): _keys([], this._marker, success, fail) issues the first listObjects
list ==
  /\ allKeys' = <<>>
  /\ marker' = this.marker
  /\ pc' = "list"

\* listObjects' prefix: a slash is appended unless the prefix ends with one
listPrefix(prefix) ==
  IF Len(prefix) = 0 \/ prefix[Len(prefix)] # "/" THEN prefix \o <<"/">> ELSE prefix

\* listObjects' success value for the page the store returned
listObjects(prefix, page) ==
  IF Len(page) # 0 /\ page[1] = listPrefix(prefix) THEN Tail(page) ELSE page

\* the store answers a listObjects call with a page of 1..MaxPage keys (fewer if
\* fewer remain); _keys resolves on an empty page and asks for the next otherwise.
\* list() itself resolves with the keys; an operation's list().then goes on with them
ListPage ==
  /\ pc = "list"
  /\ \E n \in 1..MaxPage :
       LET page == FirstN(KeysAfter(this.bucket, listPrefix(this.prefix), marker), n)
           ks == listObjects(this.prefix, page)
       IN  IF Len(ks) = 0
           THEN /\ keys' = allKeys
                /\ workingSet' = allKeys
                /\ IF op = "list"
                   THEN success(AccVal(allKeys))
                   ELSE pc' = "listed" /\ UNCHANGED <<settled, result>>
                /\ UNCHANGED <<allKeys, marker>>
           ELSE /\ allKeys' = allKeys \o ks
                /\ marker' = ks[Len(ks)]
                /\ UNCHANGED <<pc, keys, workingSet, settled, result>>
  /\ UNCHANGED <<outside, func, this, s3, op, isAsync, in, key, entries, pend, value,
                 removeObjects, keepObjects, copies, calls, fnlog, s3Init, firstErr>>

ListFailPartial ==
  /\ pc = "list"
  /\ success(AccVal(allKeys))
  /\ Failure("list", StoreError, <<>>)
  /\ UNCHANGED <<outside, func, this, s3, op, isAsync, in, allKeys, marker, keys, key, entries,
                 pend, value, removeObjects, keepObjects, copies, calls, fnlog, workingSet,
                 s3Init>>

\* a listObjects call fails: list() rejects, and the operation's .catch(fail) rejects
ListFail ==
  /\ pc = "list"
  /\ fail(StoreError)
  /\ Failure("list", StoreError, <<>>)
  /\ UNCHANGED <<outside, func, this, s3, op, isAsync, in, allKeys, marker, keys, key, entries, pend,
                 value, removeObjects, keepObjects, copies, calls, fnlog, workingSet, s3Init>>

\* list() called on its own
listCalled ==
  /\ pc = "idle"
  /\ op' = "list"
  /\ list
  /\ UNCHANGED <<outside, func, this, s3, isAsync, in, keys, key, entries, pend, value,
                 removeObjects, keepObjects, copies, settled, result, calls, fnlog,
                 workingSet, s3Init, firstErr>>

\* forEach, map, reduce or filter called with something that is not a function: the
\* call throws a TypeError before any promise is made
notAFunction ==
  /\ pc = "idle"
  /\ op' \in {"forEach", "map", "reduce", "filter"}
  /\ pc' = "thrown"
  /\ Failure("usage", "TypeError", <<>>)
  /\ UNCHANGED <<outside, func, this, s3, isAsync, in, allKeys, marker, keys, key, entries,
                 pend, value, removeObjects, keepObjects, copies, settled, result, calls,
                 fnlog, workingSet, s3Init>>

(***************************************************************************)
(* forEach(func, isAsync)                                                  *)
(***************************************************************************)
forEach ==
  /\ pc = "idle"
  /\ op' = "forEach"
  /\ isAsync' \in BOOLEAN
  /\ list
  /\ UNCHANGED <<outside, func, this, s3, in, keys, key, entries, pend, value, removeObjects, keepObjects,
                 copies, settled, result, calls, fnlog, workingSet, s3Init, firstErr>>

\* the completion callback given to _eachObject and _splitObjects
forEachCallback(err) == IF Truthy(err) THEN fail(err) ELSE success(UndefinedVal)

forEachAbort(err) == forEachCallback(err) /\ UNCHANGED <<in, keys, key, calls>>

forEachNextPop(ks, helper) ==
  IF Len(ks) = 0
  THEN forEachCallback("null") /\ UNCHANGED <<in, keys, key, calls>>
  ELSE /\ key' = ks[Len(ks)]
       /\ keys' = SubSeq(ks, 1, Len(ks) - 1)
       /\ calls' = Append(calls, get(this.bucket, ks[Len(ks)]))
       /\ in' = helper
       /\ pc' = "get"
       /\ UNCHANGED <<settled, result>>

\* _eachObject(keys, callback) up to its get; _splitObjects likewise up to splitObject's get
forEachNext(ks, helper) ==
  IF Len(ks) = 0
  THEN forEachCallback("null") /\ UNCHANGED <<in, keys, key, calls>>
  ELSE /\ key' = Head(ks)
       /\ keys' = Tail(ks)
       /\ calls' = Append(calls, get(this.bucket, Head(ks)))
       /\ in' = helper
       /\ pc' = "get"
       /\ UNCHANGED <<settled, result>>

_eachObjectPersist(ks) ==
  /\ calls' = Append(calls, Call("put", this.bucket, key, <<>>, key))
  /\ pc' = "put"
  /\ UNCHANGED <<in, keys, key, settled, result>>

_eachObject(ks) == forEachNext(ks, "object")

forEachSplitObjects(ks) == forEachNext(ks, "split")

\* list().then(keys => ...)
ForEachListed ==
  /\ pc = "listed"
  /\ op = "forEach"
  /\ IF this.delimiter = Undefined THEN _eachObject(keys) ELSE forEachSplitObjects(keys)
  /\ UNCHANGED <<outside, func, this, s3, op, isAsync, allKeys, marker, entries, pend, value, removeObjects,
                 keepObjects, copies, fnlog, workingSet, s3Init, firstErr>>

\* a record's promise in async split mode
Pending == [st |-> "pending", v |-> <<>>]
Resolved(v) == [st |-> "resolved", v |-> v]
AllResolved(ps) == \A j \in 1..Len(ps) : ps[j].st = "resolved"
\* the values Promise.all resolves with, in the order of the promises
Values(ps) == [i \in 1..Len(ps) |-> ps[i].v]

FnCall(k, arg, out) == [key |-> k, arg |-> arg, out |-> out]

\* _eachObject: the get resolved with the body
ForEachObject ==
  /\ pc = "get" /\ op = "forEach" /\ in = "object"
  /\ GetCanSucceed
  /\ IF isAsync
     THEN /\ fnlog' = Append(fnlog, FnCall(key, Body(PendingGet), "pending"))
          /\ pc' = "fn"
          /\ UNCHANGED <<in, keys, key, calls, settled, result, firstErr>>
     ELSE \/ /\ fnlog' = Append(fnlog, FnCall(key, Body(PendingGet), "return"))
             /\ _eachObject(keys)
             /\ UNCHANGED firstErr
          \/ \E e \in ThrowVals :
               /\ fnlog' = Append(fnlog, FnCall(key, Body(PendingGet), e))
               /\ forEachAbort(e)
               /\ Failure("fn", e, key)
  /\ UNCHANGED <<outside, func, this, s3, op, isAsync, allKeys, marker, entries, pend, value, removeObjects,
                 keepObjects, copies, workingSet, s3Init>>

\* _eachObject, isAsync: func(body)'s promise settles
ForEachFnSettled ==
  /\ pc = "fn" /\ op = "forEach"
  /\ \/ /\ fnlog' = [fnlog EXCEPT ![Len(fnlog)].out = "return"]
        /\ _eachObject(keys)
        /\ UNCHANGED firstErr
     \/ \E e \in ThrowVals :
          /\ fnlog' = [fnlog EXCEPT ![Len(fnlog)].out = e]
          /\ forEachAbort(e)
          /\ Failure("fn", e, key)
  /\ UNCHANGED <<outside, func, this, s3, op, isAsync, allKeys, marker, entries, pend, value, removeObjects,
                 keepObjects, copies, workingSet, s3Init>>

\* the user function's calls on the records es of key k, all with outcome out
RecordCalls(k, es, out) == [i \in 1..Len(es) |-> FnCall(k, es[i], out)]

\* a synchronous pass over the records: records 1..n-1 return, record n throws e
ThrownAt(k, es, n, e) == SubSeq(RecordCalls(k, es, "return"), 1, n - 1) \o <<FnCall(k, es[n], e)>>

\* _splitObjects: splitObject resolved with the entries; _eachSplit(entries)
ForEachSplit ==
  /\ pc = "get" /\ op = "forEach" /\ in = "split"
  /\ GetCanSucceed
  /\ LET es == splitObject(Body(PendingGet), this.delimiter)
     IN  /\ entries' = es
         /\ IF isAsync
            THEN /\ fnlog' = fnlog \o RecordCalls(key, es, "pending")
                 /\ pend' = [i \in 1..Len(es) |-> Pending]
                 /\ IF Len(es) = 0
                    THEN forEachSplitObjects(keys)
                    ELSE pc' = "recs" /\ UNCHANGED <<in, keys, key, calls, settled, result>>
                 /\ UNCHANGED firstErr
            ELSE \/ /\ fnlog' = fnlog \o RecordCalls(key, es, "return")
                    /\ forEachSplitObjects(keys)
                    /\ UNCHANGED <<pend, firstErr>>
                 \/ \E n \in 1..Len(es), e \in ThrowVals :
                      /\ fnlog' = fnlog \o ThrownAt(key, es, n, e)
                      /\ forEachAbort(e)
                      /\ Failure("fn", e, key)
                      /\ UNCHANGED pend
  /\ UNCHANGED <<outside, func, this, s3, op, isAsync, allKeys, marker, value, removeObjects,
                 keepObjects, copies, workingSet, s3Init>>

\* the place in fnlog of the call on record i of the object being processed
RecordLog(i) == Len(fnlog) - Len(entries) + i

\* _eachSplit, isAsync: one of the records' promises settles; Promise.all resolves
\* when all have resolved and rejects on the first rejection
ForEachRecordSettled ==
  /\ pc = "recs" /\ op = "forEach"
  /\ \E i \in 1..Len(pend) :
       /\ pend[i] = Pending
       /\ \/ /\ fnlog' = [fnlog EXCEPT ![RecordLog(i)].out = "return"]
             /\ pend' = [pend EXCEPT ![i] = Resolved(<<>>)]
             /\ IF AllResolved(pend')
                THEN forEachSplitObjects(keys)
                ELSE UNCHANGED <<pc, in, keys, key, calls, settled, result>>
             /\ UNCHANGED firstErr
          \/ \E e \in ThrowVals :
               /\ fnlog' = [fnlog EXCEPT ![RecordLog(i)].out = e]
               /\ pend' = <<>>
               /\ forEachAbort(e)
               /\ Failure("fn", e, key)
  /\ UNCHANGED <<outside, func, this, s3, op, isAsync, allKeys, marker, entries, value, removeObjects,
                 keepObjects, copies, workingSet, s3Init>>

\* a get fails: the helper's .catch hands the error to the callback
ForEachGetFail ==
  /\ pc = "get" /\ op = "forEach"
  /\ forEachAbort(StoreError)
  /\ Failure("get", StoreError, key)
  /\ UNCHANGED <<outside, func, this, s3, op, isAsync, allKeys, marker, entries, pend, value, removeObjects,
                 keepObjects, copies, fnlog, workingSet, s3Init>>

(***************************************************************************)
(* join(delimiter)                                                         *)
(***************************************************************************)
\* the delimiters join is called with: none, or ","
JoinDelimiters == {Undefined, <<",">>}

joinNoDefault(d) == d

\* if (delimiter == null) delimiter = '\n'
joinDefault(d) == IF d = Undefined THEN <<"\n">> ELSE d

join ==
  /\ pc = "idle"
  /\ op' = "join"
  /\ joinDelimiter' \in JoinDelimiters
  /\ list
  /\ UNCHANGED <<getPromises, str, resolved, func, this, s3, isAsync, in, keys, key, entries,
                 pend, value, removeObjects, keepObjects, copies, settled, result, calls,
                 fnlog, workingSet, s3Init, firstErr>>

\* Promise.all(getPromises).then(objects => success(objects.join(delimiter)))
joinObjects(ps) == success(AccVal(Join(Values(ps), joinDefault(joinDelimiter))))

\* list().then(keys => ...): one get per key, all issued at once
JoinListed ==
  /\ pc = "listed"
  /\ op = "join"
  /\ calls' = calls \o [i \in 1..Len(keys) |-> get(this.bucket, keys[i])]
  /\ getPromises' = [i \in 1..Len(keys) |-> Pending]
  /\ IF Len(keys) = 0
     THEN joinObjects(getPromises')
     ELSE pc' = "gets" /\ UNCHANGED <<settled, result>>
  /\ UNCHANGED <<joinDelimiter, str, resolved, func, this, s3, op, isAsync, in, allKeys,
                 marker, keys, key, entries, pend, value, removeObjects, keepObjects, copies,
                 fnlog, workingSet, s3Init, firstErr>>

\* one of the gets succeeds, in any order; Promise.all resolves when the last one has
JoinGet ==
  /\ pc = "gets"
  /\ \E i \in 1..Len(getPromises) :
       /\ getPromises[i] = Pending
       /\ Loc(this.bucket, keys[i]) \in DOMAIN s3
       /\ getPromises' = [getPromises EXCEPT ![i] = Resolved(s3[Loc(this.bucket, keys[i])])]
       /\ IF AllResolved(getPromises')
          THEN joinObjects(getPromises')
          ELSE UNCHANGED <<pc, settled, result>>
  /\ UNCHANGED <<joinDelimiter, str, resolved, func, this, s3, op, isAsync, in, allKeys,
                 marker, keys, key, entries, pend, value, removeObjects, keepObjects, copies,
                 calls, fnlog, workingSet, s3Init, firstErr>>

\* one of the gets fails: Promise.all rejects and .catch(fail) rejects join
JoinGetFail ==
  /\ pc = "gets"
  /\ \E i \in 1..Len(getPromises) :
       /\ getPromises[i] = Pending
       /\ Failure("get", StoreError, keys[i])
  /\ fail(StoreError)
  /\ UNCHANGED <<outside, func, this, s3, op, isAsync, in, allKeys, marker, keys, key,
                 entries, pend, value, removeObjects, keepObjects, copies, calls, fnlog,
                 workingSet, s3Init>>

(***************************************************************************)
(* map(func, isAsync)                                                      *)
(***************************************************************************)
\* the user function of map: x => x + "!"
MapFn(x) == x \o <<"!">>

map ==
  /\ pc = "idle"
  /\ op' = "map"
  /\ isAsync' \in BOOLEAN
  /\ list
  /\ UNCHANGED <<outside, func, this, s3, in, keys, key, entries, pend, value, removeObjects, keepObjects,
                 copies, settled, result, calls, fnlog, workingSet, s3Init, firstErr>>

isSplit == this.delimiter # Undefined

mapCallback(err) == IF Truthy(err) THEN fail(err) ELSE success(UndefinedVal)

\* _mapObject(keys, callback) up to its get; _splitObjects likewise up to splitObject's get
mapNext(ks, helper) ==
  IF Len(ks) = 0
  THEN mapCallback("null") /\ UNCHANGED <<in, keys, key, calls>>
  ELSE /\ key' = Head(ks)
       /\ keys' = Tail(ks)
       /\ calls' = Append(calls, get(this.bucket, Head(ks)))
       /\ in' = helper
       /\ pc' = "get"
       /\ UNCHANGED <<settled, result>>

_mapObject(ks) == mapNext(ks, "object")

mapSplitObjects(ks) == mapNext(ks, "split")

\* the dispatch as the source has it: _mapObject when split, _splitObjects when not
mapDispatch(ks) == IF isSplit THEN _mapObject(ks) ELSE mapSplitObjects(ks)

\* list().then(keys => ...)
MapListed ==
  /\ pc = "listed"
  /\ op = "map"
  /\ mapDispatch(keys)
  /\ UNCHANGED <<outside, func, this, s3, op, isAsync, allKeys, marker, entries, pend, value, removeObjects,
                 keepObjects, copies, fnlog, workingSet, s3Init, firstErr>>

_outputInPlace(k, body) ==
  /\ calls' = Append(calls, Call("put", this.bucket, k, body, k))
  /\ pc' = "put"
  /\ UNCHANGED <<in, keys, key, settled, result>>

\* _output(key, body, keys, callback): the put it issues
_output(k, body) ==
  /\ calls' = Append(calls,
       IF this.hasTarget
       THEN Call("put", this.targetBucket, this.targetPrefix \o getFileName(k), body, k)
       ELSE Call("put", this.bucket, k, body, k))
  /\ pc' = "put"
  /\ UNCHANGED <<in, keys, key, settled, result>>

\* _continue(keys, callback)
_continue(ks) == IF isSplit THEN mapSplitObjects(ks) ELSE _mapObject(ks)

mapCarryOn(err) == _continue(keys)

\* callback(e) from a catch: the operation settles and the helpers are not re-entered
mapAbort(err) == mapCallback(err) /\ UNCHANGED <<in, keys, key, calls>>

\* _mapObject: the get resolved with the body
MapObject ==
  /\ pc = "get" /\ op = "map" /\ in = "object"
  /\ GetCanSucceed
  /\ IF isAsync
     THEN /\ fnlog' = Append(fnlog, FnCall(key, Body(PendingGet), "pending"))
          /\ pc' = "fn"
          /\ UNCHANGED <<in, keys, key, calls, settled, result, firstErr>>
     ELSE \/ /\ fnlog' = Append(fnlog, FnCall(key, Body(PendingGet), "return"))
             /\ _output(key, MapFn(Body(PendingGet)))
             /\ UNCHANGED firstErr
          \/ \E e \in ThrowVals :
               /\ fnlog' = Append(fnlog, FnCall(key, Body(PendingGet), e))
               /\ mapAbort(e)
               /\ Failure("fn", e, key)
  /\ UNCHANGED <<outside, func, this, s3, op, isAsync, allKeys, marker, entries, pend, value, removeObjects,
                 keepObjects, copies, workingSet, s3Init>>

\* _mapObject, isAsync: func(body)'s promise settles
MapFnSettled ==
  /\ pc = "fn" /\ op = "map"
  /\ \/ /\ fnlog' = [fnlog EXCEPT ![Len(fnlog)].out = "return"]
        /\ _output(key, MapFn(fnlog[Len(fnlog)].arg))
        /\ UNCHANGED firstErr
     \/ \E e \in ThrowVals :
          /\ fnlog' = [fnlog EXCEPT ![Len(fnlog)].out = e]
          /\ mapAbort(e)
          /\ Failure("fn", e, key)
  /\ UNCHANGED <<outside, func, this, s3, op, isAsync, allKeys, marker, entries, pend, value, removeObjects,
                 keepObjects, copies, workingSet, s3Init>>

\* entries.map(func)
MapEntries(es) == [i \in 1..Len(es) |-> MapFn(es[i])]

\* _splitObjects: splitObject resolved with the entries; _mapSplit(entries), then
\* newEntries.join(this.delimiter) and _output
MapSplit ==
  /\ pc = "get" /\ op = "map" /\ in = "split"
  /\ GetCanSucceed
  /\ LET es == splitObject(Body(PendingGet), this.delimiter)
     IN  /\ entries' = es
         /\ IF isAsync
            THEN /\ fnlog' = fnlog \o RecordCalls(key, es, "pending")
                 /\ pend' = [i \in 1..Len(es) |-> Pending]
                 /\ IF Len(es) = 0
                    THEN _output(key, Join(<<>>, this.delimiter))
                    ELSE pc' = "recs" /\ UNCHANGED <<in, keys, key, calls, settled, result>>
                 /\ UNCHANGED firstErr
            ELSE \/ /\ fnlog' = fnlog \o RecordCalls(key, es, "return")
                    /\ _output(key, Join(MapEntries(es), this.delimiter))
                    /\ UNCHANGED <<pend, firstErr>>
                 \/ \E n \in 1..Len(es), e \in ThrowVals :
                      /\ fnlog' = fnlog \o ThrownAt(key, es, n, e)
                      /\ mapAbort(e)
                      /\ Failure("fn", e, key)
                      /\ UNCHANGED pend
  /\ UNCHANGED <<outside, func, this, s3, op, isAsync, allKeys, marker, value, removeObjects,
                 keepObjects, copies, workingSet, s3Init>>

\* _mapSplit, isAsync: one of the records' promises settles
MapRecordSettled ==
  /\ pc = "recs" /\ op = "map"
  /\ \E i \in 1..Len(pend) :
       /\ pend[i] = Pending
       /\ \/ /\ fnlog' = [fnlog EXCEPT ![RecordLog(i)].out = "return"]
             /\ pend' = [pend EXCEPT ![i] = Resolved(MapFn(entries[i]))]
             /\ IF AllResolved(pend')
                THEN _output(key, Join(Values(pend'), this.delimiter))
                ELSE UNCHANGED <<pc, in, keys, key, calls, settled, result>>
             /\ UNCHANGED firstErr
          \/ \E e \in ThrowVals :
               /\ fnlog' = [fnlog EXCEPT ![RecordLog(i)].out = e]
               /\ pend' = <<>>
               /\ mapAbort(e)
               /\ Failure("fn", e, key)
  /\ UNCHANGED <<outside, func, this, s3, op, isAsync, allKeys, marker, entries, value, removeObjects,
                 keepObjects, copies, workingSet, s3Init>>

PendingPut == calls[Len(calls)]

\* _output: the put succeeded; _continue
MapPut ==
  /\ pc = "put" /\ op = "map"
  /\ s3' = StorePut(s3, Loc(PendingPut.bucket, PendingPut.key), PendingPut.body)
  /\ _continue(keys)
  /\ UNCHANGED <<outside, func, this, op, isAsync, allKeys, marker, entries, pend, value, removeObjects,
                 keepObjects, copies, fnlog, workingSet, s3Init, firstErr>>

\* a get or a put fails: the .catch hands the error to the callback
MapStoreFail ==
  /\ pc \in {"get", "put"} /\ op = "map"
  /\ mapAbort(StoreError)
  /\ Failure(pc, StoreError, key)
  /\ UNCHANGED <<outside, func, this, s3, op, isAsync, allKeys, marker, entries, pend, value, removeObjects,
                 keepObjects, copies, fnlog, workingSet, s3Init>>

(***************************************************************************)
(* reduce(func, initialValue, isAsync)                                     *)
(***************************************************************************)
\* the user function of reduce appends (record-or-body, key) to the accumulator:
\* the accumulator is the sequence of the calls folded so far
ReduceFn(acc, x, k) == Append(acc, <<x, k>>)
InitialValue == << <<<<"0">>, <<>>>> >>

reduce ==
  /\ pc = "idle"
  /\ op' = "reduce"
  /\ isAsync' \in BOOLEAN
  /\ value' = InitialValue
  /\ list
  /\ UNCHANGED <<outside, func, this, s3, in, keys, key, entries, pend, removeObjects, keepObjects,
                 copies, settled, result, calls, fnlog, workingSet, s3Init, firstErr>>

reduceCallback(err, res) == IF Truthy(err) THEN fail(err) ELSE success(res)

reduceAbort(err) == reduceCallback(err, NullVal) /\ UNCHANGED <<in, keys, key, calls>>

_reduceObjectsPop(ks, v) ==
  IF Len(ks) = 0
  THEN reduceCallback("null", AccVal(v)) /\ UNCHANGED <<in, keys, key, calls>>
  ELSE /\ key' = ks[Len(ks)]
       /\ keys' = SubSeq(ks, 1, Len(ks) - 1)
       /\ calls' = Append(calls, get(this.bucket, ks[Len(ks)]))
       /\ in' = "object"
       /\ pc' = "get"
       /\ UNCHANGED <<settled, result>>

\* _reduceObjects(keys, callback) up to its get, with `value` being v
_reduceObjects(ks, v) ==
  IF Len(ks) = 0
  THEN reduceCallback("null", AccVal(v)) /\ UNCHANGED <<in, keys, key, calls>>
  ELSE /\ key' = Head(ks)
       /\ keys' = Tail(ks)
       /\ calls' = Append(calls, get(this.bucket, Head(ks)))
       /\ in' = "object"
       /\ pc' = "get"
       /\ UNCHANGED <<settled, result>>

\* _splitAndReduceObjects(keys, callback): `key = keys.shift()` assigns to a name
\* that is declared nowhere; in strict mode (line 9) the assignment throws a
\* ReferenceError after keys.shift() ran.  The throw leaves the list().then handler
\* and reaches the .catch(fail) of line 549.
_splitAndReduceObjects(ks, v) ==
  IF Len(ks) = 0
  THEN /\ reduceCallback("null", AccVal(v))
       /\ UNCHANGED <<in, keys, key, calls, firstErr>>
  ELSE /\ keys' = Tail(ks)
       /\ fail("ReferenceError")
       /\ Failure("internal", "ReferenceError", Head(ks))
       /\ UNCHANGED <<in, key, calls>>

\* list().then(keys => ...)
ReduceListed ==
  /\ pc = "listed"
  /\ op = "reduce"
  /\ IF this.delimiter = Undefined
     THEN _reduceObjects(keys, value) /\ UNCHANGED firstErr
     ELSE _splitAndReduceObjects(keys, value)
  /\ UNCHANGED <<outside, func, this, s3, op, isAsync, allKeys, marker, entries, pend, value, removeObjects,
                 keepObjects, copies, fnlog, workingSet, s3Init>>

\* _reduceObjects: the get resolved with the body
ReduceObject ==
  /\ pc = "get" /\ op = "reduce"
  /\ GetCanSucceed
  /\ IF isAsync
     THEN /\ fnlog' = Append(fnlog, FnCall(key, Body(PendingGet), "pending"))
          /\ pc' = "fn"
          /\ UNCHANGED <<in, keys, key, calls, settled, result, firstErr, value>>
     ELSE \/ /\ fnlog' = Append(fnlog, FnCall(key, Body(PendingGet), "return"))
             /\ value' = ReduceFn(value, Body(PendingGet), key)
             /\ _reduceObjects(keys, value')
             /\ UNCHANGED firstErr
          \/ \E e \in ThrowVals :
               /\ fnlog' = Append(fnlog, FnCall(key, Body(PendingGet), e))
               /\ reduceAbort(e)
               /\ Failure("fn", e, key)
               /\ UNCHANGED value
  /\ UNCHANGED <<outside, func, this, s3, op, isAsync, allKeys, marker, entries, pend, removeObjects,
                 keepObjects, copies, workingSet, s3Init>>

\* _reduceObjects, isAsync: func(value, body, key)'s promise settles
ReduceFnSettled ==
  /\ pc = "fn" /\ op = "reduce"
  /\ \/ /\ fnlog' = [fnlog EXCEPT ![Len(fnlog)].out = "return"]
        /\ value' = ReduceFn(value, fnlog[Len(fnlog)].arg, key)
        /\ _reduceObjects(keys, value')
        /\ UNCHANGED firstErr
     \/ \E e \in ThrowVals :
          /\ fnlog' = [fnlog EXCEPT ![Len(fnlog)].out = e]
          /\ reduceAbort(e)
          /\ Failure("fn", e, key)
          /\ UNCHANGED value
  /\ UNCHANGED <<outside, func, this, s3, op, isAsync, allKeys, marker, entries, pend, removeObjects,
                 keepObjects, copies, workingSet, s3Init>>

\* a get fails: .catch(e => callback(e, null))
ReduceGetFail ==
  /\ pc = "get" /\ op = "reduce"
  /\ reduceAbort(StoreError)
  /\ Failure("get", StoreError, key)
  /\ UNCHANGED <<outside, func, this, s3, op, isAsync, allKeys, marker, entries, pend, value, removeObjects,
                 keepObjects, copies, fnlog, workingSet, s3Init>>

(***************************************************************************)
(* filter(func, isAsync)                                                   *)
(***************************************************************************)
\* what the predicate may return: true, false, or a number (1 or 0: not a boolean)
FilterResults == {"true", "false", "one", "zero"}

cleanKeepAll(body) == "true"

\* clean()'s predicate: body => body.length > 0
cleanPredicate(body) == IF Len(body) > 0 THEN "true" ELSE "false"

\* what the predicate given to filter may return on arg, and what it may throw
PredicateResults(arg) == IF func = "nonEmpty" THEN {cleanPredicate(arg)} ELSE FilterResults
PredicateThrows == IF func = "nonEmpty" THEN {} ELSE ThrowVals

filter ==
  /\ pc = "idle"
  /\ op' = "filter"
  /\ isAsync' \in BOOLEAN
  /\ removeObjects' = <<>>
  /\ keepObjects' = <<>>
  /\ list
  /\ UNCHANGED <<outside, func, this, s3, in, keys, key, entries, pend, value, copies, settled, result,
                 calls, fnlog, workingSet, s3Init, firstErr>>

filterCallback(err) == IF Truthy(err) THEN fail(err) ELSE success(UndefinedVal)

filterAbort(err) == filterCallback(err) /\ UNCHANGED <<in, keys, key, calls, copies>>

\* checkResult(result) throws unless typeof result is 'boolean'
checkResult(r) == r \in {"true", "false"}

copyWholeKey(k) == Call("copy", this.targetBucket, this.targetPrefix \o k, <<>>, k)

\* the copy _finish issues for kept key k
copy(k) == Call("copy", this.targetBucket, this.targetPrefix \o getFileName(k), <<>>, k)

\* delete(bucket, key): an array is an object, so the call is deleteObjects(bucket, key),
\* one request for the whole array (whose elements it rewrites as {Key: key})
delete(b, ks) == DeleteCall(b, ks)

_finishNoCallback(keep, remove) ==
  IF this.hasTarget
  THEN /\ calls' = calls \o [i \in 1..Len(keep) |-> copy(keep[i])]
       /\ copies' = {Len(calls) + i : i \in 1..Len(keep)}
       /\ pc' = "copy"
       /\ UNCHANGED <<settled, result>>
  ELSE /\ calls' = Append(calls, delete(this.bucket, remove))
       /\ pc' = "delete"
       /\ UNCHANGED <<copies, settled, result>>

\* _finish(callback): with a target, one copy per kept key, all issued at once (an
\* empty Promise.all resolves at once); without, one delete request
_finish(keep, remove) ==
  IF this.hasTarget
  THEN /\ calls' = calls \o [i \in 1..Len(keep) |-> copy(keep[i])]
       /\ copies' = {Len(calls) + i : i \in 1..Len(keep)}
       /\ IF Len(keep) = 0
          THEN filterCallback("null")
          ELSE pc' = "copy" /\ UNCHANGED <<settled, result>>
  ELSE /\ calls' = Append(calls, delete(this.bucket, remove))
       /\ pc' = "delete"
       /\ UNCHANGED <<copies, settled, result>>

\* _filterObjects(keys, callback) up to its get, the two arrays being keep and remove
_filterObjects(ks, keep, remove) ==
  IF Len(ks) = 0
  THEN _finish(keep, remove) /\ UNCHANGED <<in, keys, key>>
  ELSE /\ key' = Head(ks)
       /\ keys' = Tail(ks)
       /\ calls' = Append(calls, get(this.bucket, Head(ks)))
       /\ in' = "object"
       /\ pc' = "get"
       /\ UNCHANGED <<copies, settled, result>>

\* _splitObjects(keys, callback) up to splitObject's get
filterSplitObjects(ks) ==
  IF Len(ks) = 0
  THEN filterCallback("null") /\ UNCHANGED <<in, keys, key, calls, copies>>
  ELSE /\ key' = Head(ks)
       /\ keys' = Tail(ks)
       /\ calls' = Append(calls, get(this.bucket, Head(ks)))
       /\ in' = "split"
       /\ pc' = "get"
       /\ UNCHANGED <<copies, settled, result>>

\* clean(): this.filter(body => body.length > 0), isAsync left undefined
clean ==
  /\ pc = "idle"
  /\ op' = "filter"
  /\ func' = "nonEmpty"
  /\ isAsync' = FALSE
  /\ removeObjects' = <<>>
  /\ keepObjects' = <<>>
  /\ list
  /\ UNCHANGED <<outside, this, s3, in, keys, key, entries, pend, value, copies, settled,
                 result, calls, fnlog, workingSet, s3Init, firstErr>>

\* list().then(keys => ...)
FilterListed ==
  /\ pc = "listed"
  /\ op = "filter"
  /\ IF this.delimiter = Undefined
     THEN _filterObjects(keys, keepObjects, removeObjects)
     ELSE filterSplitObjects(keys)
  /\ UNCHANGED <<outside, func, this, s3, op, isAsync, allKeys, marker, entries, pend, value, removeObjects,
                 keepObjects, fnlog, workingSet, s3Init, firstErr>>

passesNegated(r) == ~Truthy(r)

\* `if (result)`: the object is kept
passes(r) == Truthy(r)

\* the predicate returned r for the object: checkResult, then the push and the next key
filterClassify(r) ==
  IF checkResult(r)
  THEN /\ keepObjects' = IF passes(r) THEN Append(keepObjects, key) ELSE keepObjects
       /\ removeObjects' = IF passes(r) THEN removeObjects ELSE Append(removeObjects, key)
       /\ _filterObjects(keys, keepObjects', removeObjects')
       /\ UNCHANGED firstErr
  ELSE /\ filterAbort("TypeError")
       /\ Failure("internal", "TypeError", key)
       /\ UNCHANGED <<keepObjects, removeObjects>>

\* _filterObjects: the get resolved with the body
FilterObject ==
  /\ pc = "get" /\ op = "filter" /\ in = "object"
  /\ GetCanSucceed
  /\ IF isAsync
     THEN /\ fnlog' = Append(fnlog, FnCall(key, Body(PendingGet), "pending"))
          /\ pc' = "fn"
          /\ UNCHANGED <<in, keys, key, calls, copies, settled, result, firstErr,
                         keepObjects, removeObjects>>
     ELSE \/ \E r \in PredicateResults(Body(PendingGet)) :
               /\ fnlog' = Append(fnlog, FnCall(key, Body(PendingGet), r))
               /\ filterClassify(r)
          \/ \E e \in PredicateThrows :
               /\ fnlog' = Append(fnlog, FnCall(key, Body(PendingGet), e))
               /\ filterAbort(e)
               /\ Failure("fn", e, key)
               /\ UNCHANGED <<keepObjects, removeObjects>>
  /\ UNCHANGED <<outside, func, this, s3, op, isAsync, allKeys, marker, entries, pend, value,
                 workingSet, s3Init>>

\* _filterObjects, isAsync: func(body)'s promise settles
FilterFnSettled ==
  /\ pc = "fn" /\ op = "filter"
  /\ \/ \E r \in PredicateResults(fnlog[Len(fnlog)].arg) :
          /\ fnlog' = [fnlog EXCEPT ![Len(fnlog)].out = r]
          /\ filterClassify(r)
     \/ \E e \in PredicateThrows :
          /\ fnlog' = [fnlog EXCEPT ![Len(fnlog)].out = e]
          /\ filterAbort(e)
          /\ Failure("fn", e, key)
          /\ UNCHANGED <<keepObjects, removeObjects>>
  /\ UNCHANGED <<outside, func, this, s3, op, isAsync, allKeys, marker, entries, pend, value,
                 workingSet, s3Init>>

\* _finish: one of the copies succeeded; Promise.all resolves when the last one has
FilterCopy ==
  /\ \E c \in copies :
       /\ Loc(this.bucket, calls[c].for) \in DOMAIN s3
       /\ s3' = StorePut(s3, Loc(calls[c].bucket, calls[c].key), s3[Loc(this.bucket, calls[c].for)])
       /\ copies' = copies \ {c}
       /\ IF copies' = {} /\ pc = "copy"
          THEN filterCallback("null")
          ELSE UNCHANGED <<pc, settled, result>>
  /\ UNCHANGED <<outside, func, this, op, isAsync, in, allKeys, marker, keys, key, entries, pend, value,
                 removeObjects, keepObjects, calls, fnlog, workingSet, s3Init, firstErr>>

\* _finish: one of the copies failed; Promise.all rejects on the first failure
FilterCopyFail ==
  /\ \E c \in copies :
       /\ copies' = copies \ {c}
       /\ filterCallback(StoreError)
       /\ Failure("copy", StoreError, calls[c].for)
  /\ UNCHANGED <<outside, func, this, s3, op, isAsync, in, allKeys, marker, keys, key, entries, pend, value,
                 removeObjects, keepObjects, calls, fnlog, workingSet, s3Init>>

PendingDelete == calls[Len(calls)]
Range(seq) == {seq[i] : i \in 1..Len(seq)}

\* _finish: the delete request succeeded
FilterDelete ==
  /\ pc = "delete"
  /\ s3' = StoreDelete(s3, {Loc(PendingDelete.bucket, k) : k \in Range(PendingDelete.dels)})
  /\ filterCallback("null")
  /\ UNCHANGED <<outside, func, this, op, isAsync, in, allKeys, marker, keys, key, entries, pend, value,
                 removeObjects, keepObjects, copies, calls, fnlog, workingSet, s3Init, firstErr>>

\* _finish: the delete request failed
FilterDeleteFail ==
  /\ pc = "delete"
  /\ filterCallback(StoreError)
  /\ Failure("delete", StoreError, <<>>)
  /\ UNCHANGED <<outside, func, this, s3, op, isAsync, in, allKeys, marker, keys, key, entries, pend, value,
                 removeObjects, keepObjects, copies, calls, fnlog, workingSet, s3Init>>

\* entries.filter(func) for the results rs the predicate returned: truthy ones stay
RECURSIVE FilterEntries(_, _)
FilterEntries(es, rs) ==
  IF Len(es) = 0 THEN <<>>
  ELSE (IF Truthy(rs[1]) THEN <<es[1]>> ELSE <<>>) \o FilterEntries(Tail(es), Tail(rs))

\* the put of _splitObjects
filterPut(k, body) ==
  IF this.hasTarget
  THEN Call("put", this.targetBucket, this.targetPrefix \o getFileName(k), body, k)
  ELSE Call("put", this.bucket, k, body, k)

\* _splitObjects: splitObject resolved with the entries; _filterSplitObject(entries).
\* With isAsync, `promises = []` assigns to a name declared nowhere: the executor
\* throws a ReferenceError, the promise rejects with it and .catch(callback) gets it.
FilterSplit ==
  /\ pc = "get" /\ op = "filter" /\ in = "split"
  /\ GetCanSucceed
  /\ LET es == splitObject(Body(PendingGet), this.delimiter)
     IN  /\ entries' = es
         /\ IF isAsync
            THEN /\ filterAbort("ReferenceError")
                 /\ Failure("internal", "ReferenceError", key)
                 /\ UNCHANGED fnlog
            ELSE \/ \E rs \in [1..Len(es) -> FilterResults] :
                      /\ \A i \in 1..Len(es) : rs[i] \in PredicateResults(es[i])
                      /\ fnlog' = fnlog \o [i \in 1..Len(es) |-> FnCall(key, es[i], rs[i])]
                      /\ calls' = Append(calls, filterPut(key, Join(FilterEntries(es, rs), this.delimiter)))
                      /\ pc' = "put"
                      /\ UNCHANGED <<in, keys, key, copies, settled, result, firstErr>>
                 \/ \E n \in 1..Len(es), e \in PredicateThrows :
                      /\ \E rs \in [1..(n - 1) -> FilterResults] :
                           fnlog' = fnlog \o [i \in 1..(n - 1) |-> FnCall(key, es[i], rs[i])]
                                          \o <<FnCall(key, es[n], e)>>
                      /\ filterAbort(e)
                      /\ Failure("fn", e, key)
  /\ UNCHANGED <<outside, func, this, s3, op, isAsync, allKeys, marker, pend, value, removeObjects,
                 keepObjects, workingSet, s3Init>>

\* _splitObjects: the put succeeded
FilterPut ==
  /\ pc = "put" /\ op = "filter"
  /\ s3' = StorePut(s3, Loc(PendingPut.bucket, PendingPut.key), PendingPut.body)
  /\ filterSplitObjects(keys)
  /\ UNCHANGED <<outside, func, this, op, isAsync, allKeys, marker, entries, pend, value, removeObjects,
                 keepObjects, fnlog, workingSet, s3Init, firstErr>>

\* a get or a put fails: the .catch hands the error to the callback
FilterStoreFail ==
  /\ pc \in {"get", "put"} /\ op = "filter"
  /\ filterAbort(StoreError)
  /\ Failure(pc, StoreError, key)
  /\ UNCHANGED <<outside, func, this, s3, op, isAsync, allKeys, marker, entries, pend, value, removeObjects,
                 keepObjects, fnlog, workingSet, s3Init>>

Next ==
  \/ ListFail
  \/ ForEachGetFail
  \/ JoinGetFail
  \/ MapStoreFail
  \/ ReduceGetFail
  \/ FilterCopyFail
  \/ FilterDeleteFail
  \/ FilterStoreFail
  \/ listCalled
  \/ notAFunction
  \/ ListPage
  \/ forEach
  \/ ForEachListed
  \/ ForEachObject
  \/ ForEachFnSettled
  \/ ForEachSplit
  \/ ForEachRecordSettled
  \/ join
  \/ JoinListed
  \/ JoinGet
  \/ map
  \/ MapListed
  \/ MapObject
  \/ MapFnSettled
  \/ MapSplit
  \/ MapRecordSettled
  \/ MapPut
  \/ reduce
  \/ ReduceListed
  \/ ReduceObject
  \/ ReduceFnSettled
  \/ filter
  \/ clean
  \/ FilterListed
  \/ FilterObject
  \/ FilterFnSettled
  \/ FilterCopy
  \/ FilterDelete
  \/ FilterSplit
  \/ FilterPut

Spec == Init /\ [][Next]_vars

\* the same system when every call that is pending is eventually answered and every
\* continuation that is ready is eventually run
LiveSpec == Init /\ [][Next]_vars /\ WF_vars(Next)

(***************************************************************************)
(* context(key) and target(target) on a new instance, for the location     *)
(* strings of bounded length: resolveKey applied to each of them.          *)
(***************************************************************************)
\* a location string has at most MaxStr characters after its scheme, if it has one
MaxStr == 3
PathChars == {"b", "d", "/"}
Paths == UNION {[1..n -> PathChars] : n \in 0..MaxStr}
\* strings with the scheme of the store, and strings without
KeyStrings == {S3Scheme \o p : p \in Paths} \cup Paths

\* the instance after the constructor, given no conf.key (38-63)
Constructed ==
  [bucket |-> <<>>, prefix |-> <<>>, marker |-> <<>>, hasTarget |-> FALSE,
   targetBucket |-> <<>>, targetPrefix |-> <<>>, delimiter |-> Undefined]

KeyInit ==
  /\ this = Constructed
  /\ s3 = [l \in {} |-> <<>>]
  /\ op = "none"
  /\ isAsync = FALSE
  /\ pc = "idle"
  /\ in = "none"
  /\ allKeys = <<>>
  /\ marker = <<>>
  /\ keys = <<>>
  /\ key = <<>>
  /\ entries = <<>>
  /\ pend = <<>>
  /\ value = <<>>
  /\ removeObjects = <<>>
  /\ keepObjects = <<>>
  /\ copies = {}
  /\ settled = "pending"
  /\ result = NoVal
  /\ calls = <<>>
  /\ fnlog = <<>>
  /\ workingSet = <<>>
  /\ s3Init = s3
  /\ firstErr = NoErr
  /\ func = "user"
  /\ joinDelimiter = Undefined
  /\ getPromises = <<>>
  /\ str \in KeyStrings
  /\ resolved = NotResolved

\* context(key): throws unless key resolves to a location of the store
context ==
  /\ pc = "idle"
  /\ op' = "context"
  /\ resolved' = resolveKey(str)
  /\ IF resolved'.type # TYPE_S3
     THEN /\ pc' = "thrown"
          /\ Failure("usage", "Error", <<>>)
          /\ UNCHANGED this
     ELSE /\ this' = [this EXCEPT !.bucket = resolved'.bucket, !.prefix = resolved'.prefix]
          /\ pc' = "returned"
          /\ UNCHANGED firstErr
  /\ UNCHANGED <<joinDelimiter, getPromises, str, func, s3, isAsync, in, allKeys, marker, keys,
                 key, entries, pend, value, removeObjects, keepObjects, copies, settled,
                 result, calls, fnlog, workingSet, s3Init>>

\* target(target): throws unless target resolves to a location of the store
target ==
  /\ pc = "idle"
  /\ op' = "target"
  /\ resolved' = resolveKey(str)
  /\ IF resolved'.type # TYPE_S3
     THEN /\ pc' = "thrown"
          /\ Failure("usage", "Error", <<>>)
          /\ UNCHANGED this
     ELSE /\ this' = [this EXCEPT !.targetBucket = resolved'.bucket,
                                  !.targetPrefix = resolved'.prefix,
                                  !.hasTarget = TRUE]
          /\ pc' = "returned"
          /\ UNCHANGED firstErr
  /\ UNCHANGED <<joinDelimiter, getPromises, str, func, s3, isAsync, in, allKeys, marker, keys,
                 key, entries, pend, value, removeObjects, keepObjects, copies, settled,
                 result, calls, fnlog, workingSet, s3Init>>

KeyNext ==
  \/ context
  \/ target

KeySpec == KeyInit /\ [][KeyNext]_vars


(***************************************************************************)
(* Vocabulary of the properties.                                           *)
(***************************************************************************)
\* the operations that apply a user function to the working set
BatchOps == {"forEach", "map", "reduce", "filter"}
WS == Range(workingSet)
Src(k) == Loc(this.bucket, k)
\* the place of key k in the working set (0 if it is not one of its keys)
Idx(k) == IF k \in WS THEN CHOOSE i \in 1..Len(workingSet) : workingSet[i] = k ELSE 0
CallsOf(o) == {i \in 1..Len(calls) : calls[i].op = o}
Writes == CallsOf("put") \cup CallsOf("copy") \cup CallsOf("delete")
\* every user-function call returned and every store call succeeded so far, and
\* the library's own code threw nothing
Normal == firstErr.kind = "none"
WholeObject == this.delimiter = Undefined
\* f is the part of k after its last "/"
IsFileNameOf(f, k) ==
  \E i \in 0..Len(k) :
    /\ f = SubSeq(k, i + 1, Len(k))
    /\ \A j \in 1..Len(f) : f[j] # "/"
    /\ i = 0 \/ k[i] = "/"
\* the target location of key k
IsTargetOf(c, k) ==
  /\ c.bucket = this.targetBucket
  /\ \E i \in 0..Len(c.key) :
       /\ SubSeq(c.key, 1, i) = this.targetPrefix
       /\ IsFileNameOf(SubSeq(c.key, i + 1, Len(c.key)), k)
\* the keys for which the predicate returned r
Returned(r) == {fnlog[i].key : i \in {j \in 1..Len(fnlog) : fnlog[j].out = r}}
\* the source objects of the working set are as they were when the operation was called
SameBody(k) == Src(k) \in DOMAIN s3 /\ s3[Src(k)] = s3Init[Src(k)]

(***************************************************************************)
(* C1: map without split and without target: when map resolves (every      *)
(* call of fn having returned), every key k of the working set holds       *)
(* fn(original body of k), the first key and bodies with newlines          *)
(* included, and nothing else was written.                                 *)
(***************************************************************************)
C1_MapWholeObjectInPlace ==
  (op = "map" /\ WholeObject /\ ~this.hasTarget /\ settled = "resolved" /\ Normal) =>
    /\ \A k \in WS : Src(k) \in DOMAIN s3 /\ s3[Src(k)] = MapFn(s3Init[Src(k)])
    /\ \A i \in CallsOf("put") : calls[i].bucket = this.bucket /\ calls[i].key \in WS
    /\ \A l \in DOMAIN s3Init : l[2] \notin WS => (l \in DOMAIN s3 /\ s3[l] = s3Init[l])

(***************************************************************************)
(* C2: map in split mode: when map resolves, every key of the working set  *)
(* (the first included) was put exactly once, with the join by d of fn     *)
(* applied to every record of split(body, d), in record order.  Stated for *)
(* the configurations whose puts leave the source objects alone or         *)
(* overwrite them in place; an empty body may count as no record or as one *)
(* empty record.                                                           *)
(***************************************************************************)
C2_MapSplitRejoined ==
  (op = "map" /\ ~WholeObject /\ settled = "resolved" /\ Normal
     /\ (this.hasTarget => this.targetBucket # this.bucket)) =>
    \A k \in WS :
      /\ Cardinality({i \in CallsOf("put") : calls[i].for = k}) = 1
      /\ \A i \in CallsOf("put") :
           calls[i].for = k =>
             \/ calls[i].body = Join(MapEntries(Split(s3Init[Src(k)], this.delimiter)),
                                     this.delimiter)
             \/ s3Init[Src(k)] = <<>> /\ calls[i].body = <<>>

C4_FilterDeletesExactlyFalse ==
  (op = "filter" /\ WholeObject /\ ~this.hasTarget /\ settled = "resolved" /\ Normal) =>
    /\ {k \in WS : Src(k) \notin DOMAIN s3} = Returned("false")
    /\ \A i \in CallsOf("delete") :
         calls[i].bucket = this.bucket /\ Range(calls[i].dels) = Returned("false")
    /\ Returned("true") \cup Returned("false") = WS
    /\ \A k \in Returned("true") : SameBody(k)
    /\ CallsOf("put") = {} /\ CallsOf("copy") = {}
    /\ \A l \in DOMAIN s3Init : l[2] \notin WS => (l \in DOMAIN s3 /\ s3[l] = s3Init[l])

\* filter without target resolved having deleted one key and kept another
C4_Witness ==
  /\ op = "filter" /\ WholeObject /\ ~this.hasTarget /\ settled = "resolved" /\ Normal
  /\ \E k \in WS : Src(k) \notin DOMAIN s3
  /\ \E k \in WS : k \in Returned("true") /\ Src(k) \in DOMAIN s3

C6_NonBooleanIsTypeError ==
  (op = "filter" /\ \E i \in 1..Len(fnlog) : fnlog[i].out \in {"one", "zero"}) =>
    /\ settled = "rejected" /\ result = ErrVal("TypeError")
    /\ Writes = {}

(***************************************************************************)
(* C7: reduce of whole objects: unless a call fails, reduce resolves with  *)
(* fn folded over (body, key) of the working set in enumeration order,     *)
(* starting from initialValue; with initialValue for an empty working set. *)
(***************************************************************************)
ExpectedFold ==
  InitialValue \o [i \in 1..Len(workingSet) |-> <<s3Init[Src(workingSet[i])], workingSet[i]>>]

C7_ReduceFoldsInOrder ==
  (op = "reduce" /\ WholeObject /\ settled # "pending" /\ Normal) =>
    settled = "resolved" /\ result = AccVal(ExpectedFold)

\* reduce resolved over two keys
C7_Witness ==
  /\ op = "reduce" /\ WholeObject /\ settled = "resolved" /\ Normal
  /\ Len(workingSet) = 2
  /\ Len(result.acc) = 3

(***************************************************************************)
(* C8: reduce in split mode over a non-empty working set: unless a user    *)
(* function or store call fails, it resolves with fn folded over every     *)
(* record of every object, objects in key order, records in record order,  *)
(* one accumulator across the objects, each call with its object's key.    *)
(***************************************************************************)
RECURSIVE RecordsOf(_)
RecordsOf(ks) ==
  IF Len(ks) = 0 THEN <<>>
  ELSE LET es == splitObject(s3Init[Src(ks[1])], this.delimiter)
       IN  [i \in 1..Len(es) |-> <<es[i], ks[1]>>] \o RecordsOf(Tail(ks))

C8_ReduceSplitFolds ==
  (op = "reduce" /\ ~WholeObject /\ Len(workingSet) > 0 /\ settled # "pending"
     /\ firstErr.kind \in {"none", "internal"}) =>
    settled = "resolved" /\ result = AccVal(InitialValue \o RecordsOf(workingSet))

(***************************************************************************)
(* C9: forEach, map, reduce, filter: once the user function has thrown or  *)
(* rejected on the Nth key, or the get or put of the Nth key has failed,   *)
(* no get, put, copy or delete has been or is ever issued for a key after  *)
(* the Nth.                                                                *)
(***************************************************************************)
C9_NothingAfterFailingKey ==
  (op \in BatchOps /\ firstErr.kind \in {"fn", "get", "put"}) =>
    /\ Idx(firstErr.key) > 0
    /\ \A i \in 1..Len(calls) :
         /\ calls[i].op # "delete"
         /\ Idx(calls[i].for) > 0
         /\ Idx(calls[i].for) <= Idx(firstErr.key)

\* the user function failed on the first of two keys, and the operation settled
C9_Witness ==
  /\ firstErr.kind = "fn" /\ Idx(firstErr.key) = 1 /\ Len(workingSet) = 2
  /\ settled # "pending"
  /\ \A i \in 1..Len(calls) : calls[i].for = workingSet[1]

(***************************************************************************)
(* C10: forEach, map, reduce, filter: when the user function throws or     *)
(* rejects, or a store call fails, the returned promise is rejected, never *)
(* resolved, and with exactly the value thrown, whatever it is.            *)
(***************************************************************************)
C10_RejectsWithThrownValue ==
  (op \in BatchOps /\ firstErr.kind \in {"fn", "list", "get", "put", "copy", "delete"}
     /\ settled # "pending") =>
    settled = "rejected" /\ result = ErrVal(firstErr.val)

(***************************************************************************)
(* C11: list() resolves with every key of the store under prefix + "/"     *)
(* and after the configured marker, each once, in the store's order,       *)
(* without the key equal to prefix + "/" (the directory marker), whatever  *)
(* the sizes of the store's pages.                                         *)
(***************************************************************************)
KeysUnderPrefix ==
  {l[2] : l \in {x \in DOMAIN s3Init : /\ x[1] = this.bucket
                                       /\ StartsWith(x[2], this.prefix \o <<"/">>)
                                       /\ StrLess(this.marker, x[2])
                                       /\ x[2] # this.prefix \o <<"/">>}}

C11_ListEveryKey ==
  (op = "list" /\ settled = "resolved") =>
    /\ result.kind = "value"
    /\ Range(result.acc) = KeysUnderPrefix
    /\ Len(result.acc) = Cardinality(KeysUnderPrefix)
    /\ \A i, j \in 1..Len(result.acc) : i < j => StrLess(result.acc[i], result.acc[j])

(***************************************************************************)
(* C12: when a listObjects call of list() fails, list() rejects with that  *)
(* error and delivers no key; the operation (forEach, map, reduce, filter, *)
(* join) that started it rejects with the same error and has issued no     *)
(* get, put, copy or delete.                                               *)
(***************************************************************************)
C12_ListFailureRejects ==
  firstErr.kind = "list" =>
    /\ settled = "rejected" /\ result = ErrVal(firstErr.val)
    /\ calls = <<>> /\ fnlog = <<>>
    /\ workingSet = <<>> /\ keys = <<>>
    /\ s3 = s3Init

\* a listObjects call failed after a page of keys had been accumulated
C12_Witness ==
  /\ firstErr.kind = "list" /\ Len(allKeys) > 0
  /\ op \in {"forEach", "map", "reduce", "filter", "join"}

(***************************************************************************)
(* C13: join(delimiter) resolves with the bodies of the working set, in    *)
(* key order whatever the order in which the gets complete, joined by the  *)
(* delimiter (a newline if none is given); if a get fails, join rejects.   *)
(***************************************************************************)
JoinedBodies ==
  Join([i \in 1..Len(workingSet) |-> s3Init[Src(workingSet[i])]],
       IF joinDelimiter = Undefined THEN <<"\n">> ELSE joinDelimiter)

C13_JoinInKeyOrder ==
  (op = "join" /\ settled # "pending") =>
    IF firstErr.kind = "none"
    THEN settled = "resolved" /\ result = AccVal(JoinedBodies)
    ELSE settled = "rejected" /\ result = ErrVal(firstErr.val)

\* join resolved over two keys with different bodies, no delimiter given
C13_Witness ==
  /\ op = "join" /\ settled = "resolved" /\ joinDelimiter = Undefined
  /\ Len(workingSet) = 2
  /\ s3Init[Src(workingSet[1])] # s3Init[Src(workingSet[2])]

(***************************************************************************)
(* C14: usage errors (a user function that is not a function, a filter     *)
(* predicate returning something that is not a boolean) are thrown by the  *)
(* call that detects them and are never delivered as the rejection of the  *)
(* returned promise.                                                       *)
(***************************************************************************)
C14_UsageErrorsThrown ==
  /\ firstErr.kind = "usage" => (pc = "thrown" /\ settled = "pending")
  /\ (op = "filter" /\ \E i \in 1..Len(fnlog) : ~checkResult(fnlog[i].out)
                                                  /\ fnlog[i].out \in FilterResults) =>
       ~(settled = "rejected" /\ result = ErrVal("TypeError"))

(***************************************************************************)
(* C15: during forEach, map, reduce and filter at most one key has a store *)
(* call or a user-function call pending at any moment, the copies of       *)
(* filter with a target included.                                          *)
(***************************************************************************)
\* the keys that have a store call or a user-function call pending
InFlight ==
  (IF pc \in {"get", "put", "fn", "recs"} THEN {key} ELSE {})
    \cup {calls[c].for : c \in copies}

C15_OneKeyInFlight == op \in BatchOps => Cardinality(InFlight) <= 1

(***************************************************************************)
(* C16: split mode of forEach, map and filter.  With isAsync the user      *)
(* function is called on all the records of an object, in record order,    *)
(* before any of the calls is awaited, and the engine acts on the object's *)
(* result only when every one of them has resolved: map and filter issue   *)
(* the key's put only then, and forEach fetches the next key only then.    *)
(* Without isAsync the records of a key are processed one after another in *)
(* record order.                                                           *)
(***************************************************************************)
RecordsOfKey(k) == splitObject(s3Init[Src(k)], this.delimiter)
\* the user function's calls for key k, in the order they were made
FnCallsFor(k) == SelectSeq(fnlog, LAMBDA c : c.key = k)
\* the get of key k has resolved
Fetched(k) ==
  /\ \E i \in CallsOf("get") : calls[i].for = k
  /\ ~(pc = "get" /\ key = k)
  /\ ~(firstErr.kind = "get" /\ firstErr.key = k)
\* a user-function call that has resolved
HasResolved(c) == c.out \in {"return"} \cup FilterResults

\* the claim for key k, its records being recs
RecordBarrier(k, recs) ==
  LET cs == FnCallsFor(k)
  IN  /\ Len(cs) <= Len(recs)
      /\ \A i \in 1..Len(cs) : cs[i].arg = recs[i]
      /\ isAsync =>
            /\ Fetched(k) => Len(cs) = Len(recs)
            /\ (\E i \in CallsOf("put") : calls[i].for = k) =>
                  \A j \in 1..Len(cs) : HasResolved(cs[j])
            /\ (\E i \in CallsOf("get") : Idx(calls[i].for) > Idx(k)) =>
                  \A j \in 1..Len(cs) : HasResolved(cs[j])

\* an empty body may count as no record or as one empty record
C16_RecordBarrier ==
  (op \in {"forEach", "map", "filter"} /\ ~WholeObject) =>
    \A k \in WS :
      \/ RecordBarrier(k, RecordsOfKey(k))
      \/ s3Init[Src(k)] = <<>> /\ RecordBarrier(k, << <<>> >>)

(***************************************************************************)
(* C17: filter in split mode, with or without isAsync: unless the          *)
(* predicate or a store call fails, it resolves having written, once for   *)
(* each key, the join by the delimiter of exactly the records for which    *)
(* the predicate returned true, in their order, the predicate having been  *)
(* applied to every record of the object; the write goes to (targetBucket, *)
(* targetPrefix + filename(key)) with a target and to the source key       *)
(* without.                                                                *)
(***************************************************************************)
\* the records of key k for which the predicate returned true, in order
KeptRecords(k) ==
  LET cs == SelectSeq(FnCallsFor(k), LAMBDA c : c.out = "true")
  IN  [i \in 1..Len(cs) |-> cs[i].arg]

C17_FilterSplitWritesKept ==
  (op = "filter" /\ ~WholeObject) =>
    /\ \A i \in CallsOf("put") :
         LET k == calls[i].for
         IN  /\ IF this.hasTarget THEN IsTargetOf(calls[i], k)
                ELSE Loc(calls[i].bucket, calls[i].key) = Src(k)
             /\ (\A j \in 1..Len(FnCallsFor(k)) : checkResult(FnCallsFor(k)[j].out)) =>
                   /\ [j \in 1..Len(FnCallsFor(k)) |-> FnCallsFor(k)[j].arg] = RecordsOfKey(k)
                   /\ calls[i].body = Join(KeptRecords(k), this.delimiter)
    /\ Writes \subseteq CallsOf("put")
    /\ (settled # "pending" /\ firstErr.kind \in {"none", "internal"}) =>
         /\ settled = "resolved"
         /\ \A k \in WS : Cardinality({i \in CallsOf("put") : calls[i].for = k}) = 1

(***************************************************************************)
(* C18: clean() is filter(body => body.length > 0): it runs the filter     *)
(* operation, without isAsync, the predicate returning true exactly on the *)
(* non-empty bodies (records, in split mode) and throwing nothing; so      *)
(* without split and target it resolves having deleted exactly the empty   *)
(* objects of the working set, and with a target having copied exactly the *)
(* non-empty ones.                                                         *)
(***************************************************************************)
EmptyKeys == {k \in WS : s3Init[Src(k)] = <<>>}

C18_CleanIsFilterNonEmpty ==
  func = "nonEmpty" =>
    /\ op = "filter" /\ ~isAsync
    /\ \A i \in 1..Len(fnlog) :
         fnlog[i].out = (IF fnlog[i].arg # <<>> THEN "true" ELSE "false")
    /\ firstErr.kind \notin {"fn", "internal", "usage"}
    /\ (WholeObject /\ settled = "resolved" /\ Normal) =>
         /\ Returned("false") = EmptyKeys
         /\ Returned("true") = WS \ EmptyKeys
         /\ IF this.hasTarget
            THEN {calls[i].for : i \in CallsOf("copy")} = WS \ EmptyKeys
            ELSE /\ \A i \in CallsOf("delete") : Range(calls[i].dels) = EmptyKeys
                 /\ {k \in WS : Src(k) \notin DOMAIN s3} = EmptyKeys

\* clean() resolved having deleted an empty object and kept a non-empty one
C18_Witness ==
  /\ func = "nonEmpty" /\ WholeObject /\ ~this.hasTarget /\ settled = "resolved" /\ Normal
  /\ \E k \in EmptyKeys : Src(k) \notin DOMAIN s3
  /\ \E k \in WS \ EmptyKeys : Src(k) \in DOMAIN s3

(***************************************************************************)
(* C19: resolveKey never fails; for a string that begins with "s3://" it   *)
(* returns type store, bucket = the first path segment, prefix = what      *)
(* follows the first "/" after the bucket (the empty string when nothing   *)
(* follows the bucket, as when there is no "/" at all); for any other      *)
(* string it returns type local file, file = the whole string, and neither *)
(* bucket nor prefix.                                                      *)
(***************************************************************************)
\* string s up to its first "/" (all of it if it has none), and what follows that "/"
FirstSegment(s) ==
  IF \E i \in 1..Len(s) : s[i] = "/"
  THEN SubSeq(s, 1, (CHOOSE i \in 1..Len(s) : s[i] = "/" /\ \A j \in 1..(i - 1) : s[j] # "/") - 1)
  ELSE s
AfterFirstSegment(s) ==
  IF \E i \in 1..Len(s) : s[i] = "/"
  THEN SubSeq(s, (CHOOSE i \in 1..Len(s) : s[i] = "/" /\ \A j \in 1..(i - 1) : s[j] # "/") + 1, Len(s))
  ELSE <<>>

C19_ResolveKey ==
  op \in {"context", "target"} =>
    IF Len(str) >= 5 /\ SubSeq(str, 1, 5) = <<"s", "3", ":", "/", "/">>
    THEN /\ resolved.type = TYPE_S3
         /\ resolved.bucket = FirstSegment(SubSeq(str, 6, Len(str)))
         /\ resolved.prefix = AfterFirstSegment(SubSeq(str, 6, Len(str)))
    ELSE /\ resolved.type = TYPE_FILE
         /\ resolved.file = str
         /\ resolved.bucket = <<>> /\ resolved.prefix = <<>>

(***************************************************************************)
(* C20: in forEach, map, reduce and filter the gets are issued for the     *)
(* keys of the working set in enumeration order, one get per key, none     *)
(* twice and none skipped, and in a successful operation for every key;    *)
(* the get of a key is issued only after the processing of the keys before *)
(* it has finished (their user-function calls have settled and their puts  *)
(* were issued before it).                                                 *)
(***************************************************************************)
Gets == SelectSeq(calls, LAMBDA c : c.op = "get")

C20_GetsInEnumerationOrder ==
  op \in BatchOps =>
    /\ Len(Gets) <= Len(workingSet)
    /\ \A i \in 1..Len(Gets) :
         /\ Gets[i].bucket = this.bucket
         /\ Gets[i].key = workingSet[i]
    /\ (settled = "resolved" /\ Normal) => Len(Gets) = Len(workingSet)
    /\ \A g \in CallsOf("get"), p \in CallsOf("put") :
         Idx(calls[p].for) < Idx(calls[g].for) => p < g
    /\ \A i \in 1..Len(fnlog) :
         (fnlog[i].out = "pending" /\ Len(Gets) > 0) => fnlog[i].key = Gets[Len(Gets)].key

\* forEach resolved having fetched two keys
C20_Witness ==
  /\ op = "forEach" /\ settled = "resolved" /\ Normal
  /\ Len(workingSet) = 2 /\ Len(Gets) = 2

(***************************************************************************)
(* C21: forEach, reduce, join and list never issue a put, copy or delete:  *)
(* whatever the user function does and however the operation ends, the     *)
(* store is as it was when the operation was called.                       *)
(***************************************************************************)
C21_ReadOnlyOperations ==
  op \in {"forEach", "reduce", "join", "list"} =>
    /\ Writes = {}
    /\ \A i \in 1..Len(calls) : calls[i].op = "get"
    /\ s3 = s3Init

\* forEach settled after the user function was called on the second of two keys
C21_Witness ==
  /\ op = "forEach" /\ settled # "pending"
  /\ Len(workingSet) = 2
  /\ \E i \in 1..Len(fnlog) : fnlog[i].key = workingSet[2]

(***************************************************************************)
(* C22: every operation (forEach, map, reduce, filter, join, list) that    *)
(* returned a promise eventually settles it, resolved or rejected, when    *)
(* every store call and every user-function call it issues is eventually   *)
(* answered; filter with isAsync in split mode over an empty object        *)
(* included.                                                               *)
(***************************************************************************)
C22_EventuallySettles ==
  (op \in BatchOps \cup {"join", "list"} /\ pc # "thrown") ~> (settled # "pending")

\* filter with isAsync in split mode has settled after fetching an object with no record
C22_Witness ==
  /\ op = "filter" /\ isAsync /\ ~WholeObject /\ settled # "pending"
  /\ Len(Gets) > 0 /\ s3Init[Src(Gets[Len(Gets)].key)] = <<>>
  /\ firstErr.kind \notin {"get", "list"}

(***************************************************************************)
(* C23: filter of whole objects defers its side effects to the end: no     *)
(* copy and no delete is issued before the predicate has returned for      *)
(* every key of the working set, and no put at all; so when the get or the *)
(* predicate fails on a key, the operation rejects and the store is as it  *)
(* was.                                                                    *)
(***************************************************************************)
C23_FilterDefersSideEffects ==
  (op = "filter" /\ WholeObject) =>
    /\ CallsOf("put") = {}
    /\ (CallsOf("copy") \cup CallsOf("delete") # {}) =>
         \A k \in WS : \E i \in 1..Len(fnlog) : fnlog[i].key = k /\ checkResult(fnlog[i].out)
    /\ firstErr.kind \in {"get", "fn"} =>
         /\ settled = "rejected"
         /\ Writes = {}
         /\ s3 = s3Init

(***************************************************************************)
(* C24: filter of whole objects without target sends a delete request only *)
(* when at least one object failed the predicate: when every object is     *)
(* kept, or the working set is empty, no delete request is sent, and none  *)
(* is ever sent with an empty list of keys.                                *)
(***************************************************************************)
C24_NoEmptyDelete ==
  (op = "filter" /\ WholeObject /\ ~this.hasTarget) =>
    \A i \in CallsOf("delete") :
      /\ calls[i].dels # <<>>
      /\ Returned("false") # {}

====
